---- MODULE Spec2Model ----
(***************************************************************************)
(* The structural extractor of lang-select                                 *)
(* (src/lang_select/enhanced_extractor.py): EnhancedExtractor.extract_items *)
(* as a state machine, one step per input line.                            *)
(*                                                                         *)
(* A character is a one-character string ("u2022" stands for the bullet    *)
(* U+2022); a text, a line, a marker or a content is a sequence of         *)
(* characters.  An Optional value is the empty sequence (Python None) or a *)
(* one-element sequence holding the value.                                 *)
(***************************************************************************)
EXTENDS Integers, Sequences, FiniteSets, TLC

VARIABLES
    self,             \* the EnhancedExtractor instance extract_items runs on
    text,             \* the argument of the running (or last) call
    lines,            \* text.strip().split('\n')
    line_idx,         \* index of the next line (0-based, as in the code)
    items,            \* the items accumulated so far
    current_section,  \* Optional title
    item_id,          \* the id counter
    section_stack,    \* sequence of <<depth, title>>, bottom first
    origin,           \* origin[k]: the value of line_idx + 1 for the line that produced items[k]
    pc,               \* "loop" inside the while loop, "done" after return
    history,          \* the calls that have returned, in order: [self, text, items]
    recent_response,  \* EnhancedResponseManager: Optional text of the last store
    last_items,       \* EnhancedResponseManager: the items of the last store
    manager           \* the ResponseManager object (None where there is none)

vars == <<self, text, lines, line_idx, items, current_section, item_id,
          section_stack, origin, pc, history, recent_response, last_items,
          manager>>

\* bounds of the model
MaxLines == 3    \* lines of a text of Spec
MaxChars == 4    \* enumerated characters of a text of SpecChars
MaxCalls == 3    \* calls of a behaviour of SpecCalls

None == <<>>
Some(v) == <<v>>

-----------------------------------------------------------------------------
(* Character classes of the regular expressions and of str.strip. *)

Whitespace == {" ", "\n", "\t"}
Digits == {"0", "1", "2", "3", "4", "5", "6", "7", "8", "9"}
Letters ==
    {"a", "b", "c", "d", "e", "f", "g", "h", "i", "j", "k", "l", "m",
     "n", "o", "p", "q", "r", "s", "t", "u", "v", "w", "x", "y", "z",
     "A", "B", "C", "D", "E", "F", "G", "H", "I", "J", "K", "L", "M",
     "N", "O", "P", "Q", "R", "S", "T", "U", "V", "W", "X", "Y", "Z"}
WordChars == Letters \cup Digits \cup {"_"}
\* every character of (?:i|ii|...|XII)+ ; each of them is itself an alternative,
\* so the group matches exactly the non-empty strings over these characters
RomanChars == {"i", "v", "x", "I", "V", "X"}
BulletChars == {"*", "-", "+", "u2022"}
Delimiters == {".", ")"} \cup Whitespace

-----------------------------------------------------------------------------
(* str operations *)

\* length of the longest prefix of s made of characters of cls
LeadingRun(s, cls) ==
    IF \A i \in 1..Len(s) : s[i] \in cls
    THEN Len(s)
    ELSE (CHOOSE i \in 1..Len(s) :
              s[i] \notin cls /\ \A j \in 1..(i - 1) : s[j] \in cls) - 1

\* length of the longest suffix of s made of characters of cls
TrailingRun(s, cls) ==
    IF \A i \in 1..Len(s) : s[i] \in cls
    THEN Len(s)
    ELSE Len(s) - (CHOOSE i \in 1..Len(s) :
                       s[i] \notin cls /\ \A j \in (i + 1)..Len(s) : s[j] \in cls)

From(s, i) == SubSeq(s, i, Len(s))

lstrip(s) == From(s, LeadingRun(s, Whitespace) + 1)
rstrip(s) == SubSeq(s, 1, Len(s) - TrailingRun(s, Whitespace))
strip(s) == rstrip(lstrip(s))

startswith(s, c) == Len(s) >= 1 /\ s[1] = c

IndexOf(s, c) == CHOOSE i \in 1..Len(s) : s[i] = c /\ \A j \in 1..(i - 1) : s[j] # c

RECURSIVE split(_)
\* s.split('\n')
split(s) ==
    IF \A i \in 1..Len(s) : s[i] # "\n"
    THEN <<s>>
    ELSE LET i == IndexOf(s, "\n")
         IN  <<SubSeq(s, 1, i - 1)>> \o split(From(s, i + 1))

-----------------------------------------------------------------------------
(* The compiled patterns of __init__.  A match is an Optional pair        *)
(* <<group 1, group 2>>.  Every pattern ends in (.+)$ after a run of       *)
(* optional or required whitespace: the greedy \s run takes all the        *)
(* whitespace and gives one character back only when nothing else is left  *)
(* for (.+).  Lines hold no newline (they come from split).                *)

\* what \s*(.+)$ or \s+(.+)$ leaves in the last group, rest being non-empty
TailGroup(rest) ==
    LET l == lstrip(rest)
    IN  IF l = <<>> THEN From(rest, Len(rest)) ELSE l

\* <token>[\.)\s]\s*(.+)$ on b, whose first r characters are the token
TokenMatch(b, r) ==
    IF r >= 1 /\ Len(b) >= r + 2 /\ b[r + 1] \in Delimiters
    THEN Some(<<SubSeq(b, 1, r), TailGroup(From(b, r + 2))>>)
    ELSE None

\* ^\s*(\d+)[\.)\s]\s*(.+)$
numbered_pattern(line) ==
    LET b == lstrip(line)
    IN  TokenMatch(b, LeadingRun(b, Digits))

\* the letter must be followed by '.' or ')': ^\s*([a-zA-Z])[\.)]\s*(.+)$
lettered_pattern_punctuated(line) ==
    LET b == lstrip(line)
    IN  IF Len(b) >= 3 /\ b[1] \in Letters /\ b[2] \in {".", ")"}
        THEN Some(<<SubSeq(b, 1, 1), TailGroup(From(b, 3))>>)
        ELSE None

\* ^\s*([a-zA-Z])[\.)\s]\s*(.+)$
lettered_pattern(line) ==
    LET b == lstrip(line)
    IN  TokenMatch(b, IF Len(b) >= 1 /\ b[1] \in Letters THEN 1 ELSE 0)

\* ^\s*((?:i|ii|iii|iv|v|vi|vii|viii|ix|x|xi|xii|I|...|XII)+)[\.)\s]\s*(.+)$
roman_pattern(line) ==
    LET b == lstrip(line)
    IN  TokenMatch(b, LeadingRun(b, RomanChars))

\* ^\s*([\*\-\+u2022])\s*(.+)$
bullet_pattern(line) ==
    LET b == lstrip(line)
    IN  IF Len(b) >= 2 /\ b[1] \in BulletChars
        THEN Some(<<SubSeq(b, 1, 1), TailGroup(From(b, 2))>>)
        ELSE None

\* the parentheses are inside group 1: ^\s*(\(\d+\))\s+(.+)$
paren_number_pattern_keeps_parens(line) ==
    LET b == lstrip(line)
        d == LeadingRun(From(b, 2), Digits)
    IN  IF /\ Len(b) >= d + 4
           /\ b[1] = "("
           /\ d >= 1
           /\ b[d + 2] = ")"
           /\ b[d + 3] \in Whitespace
        THEN Some(<<SubSeq(b, 1, d + 2), TailGroup(From(b, d + 3))>>)
        ELSE None

\* ^\s*\((\d+)\)\s+(.+)$
paren_number_pattern(line) ==
    LET b == lstrip(line)
        d == LeadingRun(From(b, 2), Digits)
    IN  IF /\ Len(b) >= d + 4
           /\ b[1] = "("
           /\ d >= 1
           /\ b[d + 2] = ")"
           /\ b[d + 3] \in Whitespace
        THEN Some(<<SubSeq(b, 2, d + 1), TailGroup(From(b, d + 3))>>)
        ELSE None

\* ^\s*([^:]+):\s+(.+)$ : the colon is the first one of the line; the key
\* starts after the leading whitespace, or is the last leading whitespace
\* character when the colon follows the leading whitespace directly
key_value_pattern(line) ==
    IF \A i \in 1..Len(line) : line[i] # ":"
    THEN None
    ELSE LET c == IndexOf(line, ":")
             n == LeadingRun(line, Whitespace)
             start == IF n + 1 < c THEN n + 1 ELSE c - 1
         IN  IF c >= 2 /\ Len(line) >= c + 2 /\ line[c + 1] \in Whitespace
             THEN Some(<<SubSeq(line, start, c - 1), TailGroup(From(line, c + 1))>>)
             ELSE None

\* no upper bound on the run of '#': ^\s*(#+)\s+(.+)$
section_pattern_unbounded(line) ==
    LET b == lstrip(line)
        h == LeadingRun(b, {"#"})
    IN  IF h >= 1 /\ Len(b) >= h + 2 /\ b[h + 1] \in Whitespace
        THEN Some(<<SubSeq(b, 1, h), TailGroup(From(b, h + 1))>>)
        ELSE None

\* ^\s*(#{1,6})\s+(.+)$
section_pattern(line) ==
    LET b == lstrip(line)
        h == LeadingRun(b, {"#"})
    IN  IF h >= 1 /\ h <= 6 /\ Len(b) >= h + 2 /\ b[h + 1] \in Whitespace
        THEN Some(<<SubSeq(b, 1, h), TailGroup(From(b, h + 1))>>)
        ELSE None

group(m, k) == m[1][k]

-----------------------------------------------------------------------------
(* The line classifier *)

is_likely_section_header(line) ==
    LET stripped == strip(line)
    IN  IF ~(Len(stripped) >= 1 /\ stripped[Len(stripped)] = ":")
        THEN FALSE
        ELSE strip(From(stripped, IndexOf(stripped, ":") + 1)) = <<>>

resembles_list_item(line) ==
    LET stripped == strip(line)
    IN  \* re.match(r'^\s*[^\w\s]\s+.+$', stripped)
        \/ /\ Len(stripped) >= 3
           /\ stripped[1] \notin WordChars \cup Whitespace
           /\ stripped[2] \in Whitespace
        \/ startswith(stripped, "-")
        \/ startswith(stripped, "*")

\* the marker of a letter or roman item: the token and the '.' or ')' that
\* starts what follows it once whitespace is skipped
TokenMarker(line, token) ==
    LET rest_of_line == lstrip(From(lstrip(line), Len(token) + 1))
    IN  IF startswith(rest_of_line, ".") THEN token \o <<".">>
        ELSE IF startswith(rest_of_line, ")") THEN token \o <<")">>
        ELSE token

\* the key-value pattern is tried before the bullet pattern
match_list_item_key_value_early(line) ==
    IF numbered_pattern(line) # None
    THEN LET m == numbered_pattern(line)
         IN  Some(<<group(m, 2), group(m, 1) \o <<".">> >>)
    ELSE IF lettered_pattern(line) # None
    THEN LET m == lettered_pattern(line)
         IN  Some(<<group(m, 2), TokenMarker(line, group(m, 1))>>)
    ELSE IF roman_pattern(line) # None
    THEN LET m == roman_pattern(line)
         IN  Some(<<group(m, 2), TokenMarker(line, group(m, 1))>>)
    ELSE IF key_value_pattern(line) # None /\ ~is_likely_section_header(line)
    THEN LET m == key_value_pattern(line)
         IN  Some(<<group(m, 1) \o <<":", " ">> \o group(m, 2), <<>> >>)
    ELSE IF bullet_pattern(line) # None
    THEN LET m == bullet_pattern(line)
         IN  Some(<<group(m, 2), group(m, 1)>>)
    ELSE IF paren_number_pattern(line) # None
    THEN LET m == paren_number_pattern(line)
         IN  Some(<<group(m, 2), group(m, 1)>>)
    ELSE IF resembles_list_item(line)
    THEN Some(<<strip(line), <<>> >>)
    ELSE None

\* Optional <<item_content, raw_prefix>>; None stands for (None, None)
match_list_item(line) ==
    IF numbered_pattern(line) # None
    THEN LET m == numbered_pattern(line)
         IN  Some(<<group(m, 2), group(m, 1) \o <<".">> >>)
    ELSE IF lettered_pattern(line) # None
    THEN LET m == lettered_pattern(line)
         IN  Some(<<group(m, 2), TokenMarker(line, group(m, 1))>>)
    ELSE IF roman_pattern(line) # None
    THEN LET m == roman_pattern(line)
         IN  Some(<<group(m, 2), TokenMarker(line, group(m, 1))>>)
    ELSE IF bullet_pattern(line) # None
    THEN LET m == bullet_pattern(line)
         IN  Some(<<group(m, 2), group(m, 1)>>)
    ELSE IF paren_number_pattern(line) # None
    THEN LET m == paren_number_pattern(line)
         IN  Some(<<group(m, 2), group(m, 1)>>)
    ELSE IF key_value_pattern(line) # None /\ ~is_likely_section_header(line)
    THEN LET m == key_value_pattern(line)
         IN  Some(<<group(m, 1) \o <<":", " ">> \o group(m, 2), <<>> >>)
    ELSE IF resembles_list_item(line)
    THEN Some(<<strip(line), <<>> >>)
    ELSE None

\* the alternatives of the anchored pattern of _determine_marker_type
CanonicalRomans ==
    {<<"i">>, <<"i", "i">>, <<"i", "i", "i">>, <<"i", "v">>, <<"v">>,
     <<"v", "i">>, <<"v", "i", "i">>, <<"v", "i", "i", "i">>, <<"i", "x">>,
     <<"x">>, <<"x", "i">>, <<"x", "i", "i">>,
     <<"I">>, <<"I", "I">>, <<"I", "I", "I">>, <<"I", "V">>, <<"V">>,
     <<"V", "I">>, <<"V", "I", "I">>, <<"V", "I", "I", "I">>, <<"I", "X">>,
     <<"X">>, <<"X", "I">>, <<"X", "I", "I">>}

\* clean_marker in '*-+u2022' : the substring test of Python
InBulletString(s) ==
    LET bullets == <<"*", "-", "+", "u2022">>
    IN  \/ s = <<>>
        \/ \E i \in 1..Len(bullets) : \E j \in i..Len(bullets) : s = SubSeq(bullets, i, j)

determine_marker_type(marker) ==
    IF marker = <<>> THEN "other"
    ELSE LET clean_marker == SubSeq(marker, 1, Len(marker) - TrailingRun(marker, {".", ")", "]"}))
         IN  IF Len(clean_marker) = 1 /\ clean_marker[1] \in Letters THEN "letter"
             ELSE IF clean_marker # <<>> /\ \A i \in 1..Len(clean_marker) : clean_marker[i] \in Digits
                  THEN "number"
             ELSE IF clean_marker \in CanonicalRomans THEN "roman"
             ELSE IF InBulletString(clean_marker) THEN "bullet"
             ELSE "other"

-----------------------------------------------------------------------------
(* The structure builder *)

\* for i in range(len(items) - 1, -1, -1): the index of the most recent item
\* of that level (first loop) or of a smaller level (second loop), 0 if none
LastAtLevel(its, level) ==
    IF \E i \in 1..Len(its) : its[i].level = level
    THEN CHOOSE i \in 1..Len(its) :
             its[i].level = level /\ \A j \in (i + 1)..Len(its) : its[j].level # level
    ELSE 0

LastBelowLevel(its, level) ==
    IF \E i \in 1..Len(its) : its[i].level < level
    THEN CHOOSE i \in 1..Len(its) :
             its[i].level < level /\ \A j \in (i + 1)..Len(its) : its[j].level >= level
    ELSE 0

\* the id after the one of the item found
find_parent_id_off_by_one(its, current_level) ==
    IF current_level = 0 \/ its = <<>>
    THEN None
    ELSE IF LastAtLevel(its, current_level - 1) # 0
    THEN Some(its[LastAtLevel(its, current_level - 1)].id + 1)
    ELSE IF LastBelowLevel(its, current_level) # 0
    THEN Some(its[LastBelowLevel(its, current_level)].id + 1)
    ELSE None

\* no test of level 0, and the fallback accepts an item of the same level
find_parent_same_level(its, current_level) ==
    IF LastAtLevel(its, current_level - 1) # 0
    THEN Some(its[LastAtLevel(its, current_level - 1)].id)
    ELSE IF LastBelowLevel(its, current_level + 1) # 0
    THEN Some(its[LastBelowLevel(its, current_level + 1)].id)
    ELSE None

\* the second loop alone: the nearest shallower item
find_parent_nearest_shallower(its, current_level) ==
    IF current_level = 0 \/ its = <<>>
    THEN None
    ELSE IF LastBelowLevel(its, current_level) # 0
    THEN Some(its[LastBelowLevel(its, current_level)].id)
    ELSE None

\* both loops run forward: the oldest item that qualifies is returned
find_parent_oldest(its, current_level) ==
    LET one_up == {i \in 1..Len(its) : its[i].level = current_level - 1}
        below == {i \in 1..Len(its) : its[i].level < current_level}
        first(S) == CHOOSE i \in S : \A j \in S : i <= j
    IN  IF current_level = 0 \/ its = <<>>
        THEN None
        ELSE IF one_up # {} THEN Some(its[first(one_up)].id)
        ELSE IF below # {} THEN Some(its[first(below)].id)
        ELSE None

\* the first loop runs forward: the oldest item one level up is returned
find_parent_oldest_one_up(its, current_level) ==
    LET one_up == {i \in 1..Len(its) : its[i].level = current_level - 1}
    IN  IF current_level = 0 \/ its = <<>>
        THEN None
        ELSE IF one_up # {}
        THEN Some(its[CHOOSE i \in one_up : \A j \in one_up : i <= j].id)
        ELSE IF LastBelowLevel(its, current_level) # 0
        THEN Some(its[LastBelowLevel(its, current_level)].id)
        ELSE None

find_parent_for_level(its, current_level) ==
    IF current_level = 0 \/ its = <<>>
    THEN None
    ELSE IF LastAtLevel(its, current_level - 1) # 0
    THEN Some(its[LastAtLevel(its, current_level - 1)].id)
    ELSE IF LastBelowLevel(its, current_level) # 0
    THEN Some(its[LastBelowLevel(its, current_level)].id)
    ELSE None

line_indent(line) == Len(line) - Len(lstrip(line))


\* the indentation is tested first and the marker type only without it
item_level_indent_first(line, raw_prefix) ==
    LET marker_type == determine_marker_type(raw_prefix)
    IN  IF line_indent(line) >= 2 THEN 1
        ELSE IF marker_type = "letter" THEN 1
        ELSE IF marker_type = "roman" THEN 2
        ELSE 0

\* the indentation width itself is the level of an item that is neither a
\* letter nor a roman item
item_level_indent_width(line, raw_prefix) ==
    LET marker_type == determine_marker_type(raw_prefix)
    IN  IF marker_type = "letter" THEN 1
        ELSE IF marker_type = "roman" THEN 2
        ELSE line_indent(line)

\* the level of an item from its line and its marker
item_level(line, raw_prefix) ==
    LET marker_type == determine_marker_type(raw_prefix)
    IN  IF marker_type = "letter" THEN 1
        ELSE IF marker_type = "roman" THEN 2
        ELSE IF line_indent(line) >= 2 THEN 1
        ELSE 0


RECURSIVE pop_sections_deeper(_, _)
\* pops on > instead of >=
pop_sections_deeper(stack, level) ==
    IF stack # <<>> /\ stack[Len(stack)][1] > level
    THEN pop_sections_deeper(SubSeq(stack, 1, Len(stack) - 1), level)
    ELSE stack

RECURSIVE pop_sections(_, _)
\* while section_stack and section_stack[-1][0] >= level: section_stack.pop()
pop_sections(stack, level) ==
    IF stack # <<>> /\ stack[Len(stack)][1] >= level
    THEN pop_sections(SubSeq(stack, 1, Len(stack) - 1), level)
    ELSE stack

ExtendedSelectableItem(id, content, original_marker, section, level, parent_id) ==
    [id |-> id, content |-> content, original_marker |-> original_marker,
     section |-> section, level |-> level, parent_id |-> parent_id]

\* the locals of extract_items before the loop; previous is what the
\* variable of that name held when the call started
\* only the first line is stripped: the whitespace before the first newline
initial_lines_first_line_stripped(t) ==
    LET ls == split(t)
    IN  <<strip(ls[1])>> \o Tail(ls)

initial_lines(t) == split(strip(t))
initial_items(previous) == <<>>
initial_section(previous) == None

\* the counter is kept from the call before
initial_item_id_kept(previous) == previous

initial_item_id(previous) == 0
initial_stack(previous) == <<>>

\* the line the loop body works on
current_line == rstrip(lines[line_idx + 1])

InLoop == pc = "loop" /\ line_idx < Len(lines)

BlankLine ==
    /\ InLoop
    /\ strip(current_line) = <<>>
    /\ line_idx' = line_idx + 1
    /\ UNCHANGED <<self, text, lines, items, current_section, item_id,
                   section_stack, origin, pc, history, recent_response, last_items, manager>>


\* the current section is read from the bottom of the stack
section_update_bottom(stack, section_match) ==
    LET level == Len(group(section_match, 1))
        new_stack == Append(pop_sections(stack, level),
                            <<level, strip(group(section_match, 2))>>)
    IN  [section_stack |-> new_stack, current_section |-> Some(new_stack[1][2])]

\* the body of "if section_match:", lines 101 to 109: the stack and the
\* current section it leaves
section_update(stack, section_match) ==
    LET level_markers == group(section_match, 1)
        section_title == group(section_match, 2)
        level == Len(level_markers)
    IN  [section_stack |-> Append(pop_sections(stack, level), <<level, strip(section_title)>>),
         current_section |-> Some(strip(section_title))]

\* no continue after the heading is handled: the line goes on to the
\* classifier
SectionHeader_no_continue ==
    /\ InLoop
    /\ strip(current_line) # <<>>
    /\ section_pattern(current_line) # None
    /\ LET u == section_update(section_stack, section_pattern(current_line))
           m == match_list_item(current_line)
       IN  /\ section_stack' = u.section_stack
           /\ current_section' = u.current_section
           /\ IF m = None
              THEN UNCHANGED <<items, item_id, origin>>
              ELSE LET level == item_level(current_line, group(m, 2))
                   IN  /\ item_id' = item_id + 1
                       /\ items' = Append(items,
                              ExtendedSelectableItem(item_id', group(m, 1), group(m, 2),
                                  u.current_section, level,
                                  find_parent_for_level(items, level)))
                       /\ origin' = Append(origin, line_idx + 1)
    /\ line_idx' = line_idx + 1
    /\ UNCHANGED <<self, text, lines, pc, history, recent_response, last_items, manager>>

SectionHeader ==
    /\ InLoop
    /\ strip(current_line) # <<>>
    /\ section_pattern(current_line) # None
    /\ LET u == section_update(section_stack, section_pattern(current_line))
       IN  /\ section_stack' = u.section_stack
           /\ current_section' = u.current_section
    /\ line_idx' = line_idx + 1
    /\ UNCHANGED <<self, text, lines, items, item_id, origin, pc, history,
                   recent_response, last_items, manager>>


\* the counter is not incremented
next_item_id_same(id) == id

\* item_id += 1
next_item_id(id) == id + 1

ListItem ==
    /\ InLoop
    /\ strip(current_line) # <<>>
    /\ section_pattern(current_line) = None
    /\ match_list_item(current_line) # None
    /\ LET m == match_list_item(current_line)
           item_content == group(m, 1)
           raw_prefix == group(m, 2)
           level == item_level(current_line, raw_prefix)
           parent_id == find_parent_for_level(items, level)
       IN  /\ item_id' = next_item_id(item_id)
           /\ items' = Append(items,
                  ExtendedSelectableItem(item_id', item_content, raw_prefix,
                                         current_section, level, parent_id))
    /\ origin' = Append(origin, line_idx + 1)
    /\ line_idx' = line_idx + 1
    /\ UNCHANGED <<self, text, lines, current_section, section_stack, pc, history,
                   recent_response, last_items, manager>>

NoMatch ==
    /\ InLoop
    /\ strip(current_line) # <<>>
    /\ section_pattern(current_line) = None
    /\ match_list_item(current_line) = None
    /\ line_idx' = line_idx + 1
    /\ UNCHANGED <<self, text, lines, items, current_section, item_id,
                   section_stack, origin, pc, history, recent_response, last_items, manager>>

Return ==
    /\ pc = "loop"
    /\ line_idx >= Len(lines)
    /\ pc' = "done"
    /\ history' = Append(history, [self |-> self, text |-> text, items |-> items])
    /\ UNCHANGED <<self, text, lines, line_idx, items, current_section, item_id,
                   section_stack, origin, recent_response, last_items, manager>>

\* extract_items(t) is called on extractor e: lines 83 to 90
Call(e, t) ==
    /\ pc = "done"
    /\ Len(history) < MaxCalls
    /\ self' = e
    /\ text' = t
    /\ lines' = initial_lines(t)
    /\ line_idx' = 0
    /\ items' = initial_items(items)
    /\ current_section' = initial_section(current_section)
    /\ item_id' = initial_item_id(item_id)
    /\ section_stack' = initial_stack(section_stack)
    /\ origin' = <<>>
    /\ pc' = "loop"
    /\ UNCHANGED <<history, recent_response, last_items, manager>>

\* the state at the head of the while loop of the first call, extract_items(t)
\* on extractor e
Entered(e, t) ==
    /\ self = e
    /\ text = t
    /\ lines = initial_lines(t)
    /\ line_idx = 0
    /\ items = <<>>
    /\ current_section = None
    /\ item_id = 0
    /\ section_stack = <<>>
    /\ origin = <<>>
    /\ pc = "loop"
    /\ history = <<>>
    /\ recent_response = None
    /\ last_items = <<>>
    /\ manager = None

-----------------------------------------------------------------------------
(* EnhancedResponseManager: it owns one extractor (self), the text of the   *)
(* last store and the items extracted from it.                              *)

\* the state after __init__: nothing stored, the extractor never called
Constructed(e) ==
    /\ self = e
    /\ text = <<>>
    /\ lines = <<>>
    /\ line_idx = 0
    /\ items = <<>>
    /\ current_section = None
    /\ item_id = 0
    /\ section_stack = <<>>
    /\ origin = <<>>
    /\ pc = "done"
    /\ history = <<>>
    /\ recent_response = None
    /\ last_items = <<>>
    /\ manager = None

\* store(t) up to the head of the loop of self.extractor.extract_items(t)
Store(t) ==
    /\ pc = "done"
    /\ Len(history) < MaxCalls
    /\ recent_response' = Some(t)
    /\ text' = t
    /\ lines' = initial_lines(t)
    /\ line_idx' = 0
    /\ items' = initial_items(items)
    /\ current_section' = initial_section(current_section)
    /\ item_id' = initial_item_id(item_id)
    /\ section_stack' = initial_stack(section_stack)
    /\ origin' = <<>>
    /\ pc' = "loop"
    /\ UNCHANGED <<self, history, last_items, manager>>

\* extract_items returns into store: self.last_items = <the items>
StoreReturn ==
    /\ pc = "loop"
    /\ line_idx >= Len(lines)
    /\ pc' = "done"
    /\ history' = Append(history, [self |-> self, text |-> text, items |-> items])
    /\ last_items' = items
    /\ UNCHANGED <<self, text, lines, line_idx, items, current_section, item_id,
                   section_stack, origin, recent_response, manager>>

get_items == last_items

Unsectioned == <<"U", "n", "s", "e", "c", "t", "i", "o", "n", "e", "d">>

\* item.section if hasattr(item, 'section') and item.section else "Unsectioned"
section_of(item) ==
    IF item.section # None /\ item.section[1] # <<>> THEN item.section[1] ELSE Unsectioned

RECURSIVE group_by_section(_, _)
\* the for loop of get_sections over its, sections being the dict so far (a
\* function from section names to sequences of items)
group_by_section(its, sections) ==
    IF its = <<>> THEN sections
    ELSE LET item == Head(its)
             section == section_of(item)
             opened == [k \in DOMAIN sections \cup {section} |->
                           IF k \in DOMAIN sections THEN sections[k] ELSE <<>>]
         IN  group_by_section(Tail(its), [opened EXCEPT ![section] = Append(@, item)])

get_sections == group_by_section(last_items, [k \in {} |-> <<>>])

-----------------------------------------------------------------------------
(* The top-level extractor, src/enhanced_extractor.py: the same class with  *)
(* three branches at the head of extract_items that return fixed lists.     *)

\* p in s
Contains(s, p) ==
    \E i \in 0..(Len(s) - Len(p)) : SubSeq(s, i + 1, i + Len(p)) = p

\* the list of _extract_section_recognition_test_case
extract_section_recognition_test_case ==
    <<ExtendedSelectableItem(1,
        <<"I", "t", "e", "m", " ", "i", "n", " ", "f", "i", "r", "s", "t", " ", "s", "e", "c", "t", "i", "o", "n">>,
        <<"1", ".">>,
        Some(<<"F", "i", "r", "s", "t", " ", "S", "e", "c", "t", "i", "o",
               "n">>), 0, None),
      ExtendedSelectableItem(2,
        <<"A", "n", "o", "t", "h", "e", "r", " ", "i", "t", "e", "m", " ",
          "i", "n", " ", "f", "i", "r", "s", "t", " ", "s", "e", "c", "t",
          "i", "o", "n">>,
        <<"2", ".">>,
        Some(<<"F", "i", "r", "s", "t", " ", "S", "e", "c", "t", "i", "o",
               "n">>), 0, None),
      ExtendedSelectableItem(3,
        <<"I", "t", "e", "m", " ", "i", "n", " ", "s", "u", "b", "s", "e",
          "c", "t", "i", "o", "n">>,
        <<"*">>,
        Some(<<"S", "u", "b", "s", "e", "c", "t", "i", "o", "n">>), 0, None),
      ExtendedSelectableItem(4,
        <<"A", "n", "o", "t", "h", "e", "r", " ", "i", "t", "e", "m", " ",
          "i", "n", " ", "s", "u", "b", "s", "e", "c", "t", "i", "o", "n">>,
        <<"*">>,
        Some(<<"S", "u", "b", "s", "e", "c", "t", "i", "o", "n">>), 0, None),
      ExtendedSelectableItem(5,
        <<"I", "t", "e", "m", " ", "i", "n", " ", "s", "e", "c", "o", "n",
          "d", " ", "s", "e", "c", "t", "i", "o", "n">>,
        <<"-">>,
        Some(<<"S", "e", "c", "o", "n", "d", " ", "S", "e", "c", "t", "i",
               "o", "n">>), 0, None),
      ExtendedSelectableItem(6,
        <<"A", "d", "d", "i", "t", "i", "o", "n", "a", "l", " ", "i", "t",
          "e", "m">>,
        <<>>,
        Some(<<"S", "e", "c", "o", "n", "d", " ", "S", "e", "c", "t", "i",
               "o", "n">>), 0, None)>>

\* the list of _extract_hierarchical_list_test_case
extract_hierarchical_list_test_case ==
    <<ExtendedSelectableItem(1,
        <<"T", "o", "p", " ", "l", "e", "v", "e", "l", " ", "i", "t", "e",
          "m">>,
        <<"1", ".">>,
        None, 0, None),
      ExtendedSelectableItem(2,
        <<"S", "e", "c", "o", "n", "d", " ", "l", "e", "v", "e", "l", " ",
          "i", "t", "e", "m">>,
        <<"a", ".">>,
        None, 1, Some(1)),
      ExtendedSelectableItem(3,
        <<"A", "n", "o", "t", "h", "e", "r", " ", "s", "e", "c", "o", "n",
          "d", " ", "l", "e", "v", "e", "l", " ", "i", "t", "e", "m">>,
        <<"b", ".">>,
        None, 1, Some(1)),
      ExtendedSelectableItem(4,
        <<"T", "h", "i", "r", "d", " ", "l", "e", "v", "e", "l", " ", "i",
          "t", "e", "m">>,
        <<"i", ".">>,
        None, 2, Some(3)),
      ExtendedSelectableItem(5,
        <<"A", "n", "o", "t", "h", "e", "r", " ", "t", "o", "p", " ", "l",
          "e", "v", "e", "l", " ", "i", "t", "e", "m">>,
        <<"2", ".">>,
        None, 0, None)>>

\* the list of _extract_deeply_nested_hierarchy_test_case
extract_deeply_nested_hierarchy_test_case ==
    <<ExtendedSelectableItem(1,
        <<"L", "e", "v", "e", "l", " ", "1">>,
        <<"1", ".">>,
        None, 0, None),
      ExtendedSelectableItem(2,
        <<"L", "e", "v", "e", "l", " ", "2">>,
        <<"a", ".">>,
        None, 1, Some(1)),
      ExtendedSelectableItem(3,
        <<"L", "e", "v", "e", "l", " ", "3">>,
        <<"i", ".">>,
        None, 2, Some(2)),
      ExtendedSelectableItem(4,
        <<"L", "e", "v", "e", "l", " ", "4">>,
        <<"*">>,
        None, 2, Some(2)),
      ExtendedSelectableItem(5,
        <<"L", "e", "v", "e", "l", " ", "5">>,
        <<"-">>,
        None, 2, Some(2))>>

\* the phrases the three branches look for
PhraseFirstSection ==
    <<"#", " ", "F", "i", "r", "s", "t", " ", "S", "e", "c", "t", "i", "o",
      "n">>
PhraseSubsection ==
    <<"#", "#", " ", "S", "u", "b", "s", "e", "c", "t", "i", "o", "n">>
PhraseSecondSection ==
    <<"#", " ", "S", "e", "c", "o", "n", "d", " ", "S", "e", "c", "t", "i",
      "o", "n">>
PhraseTopLevelItem ==
    <<"1", ".", " ", "T", "o", "p", " ", "l", "e", "v", "e", "l", " ", "i",
      "t", "e", "m">>
PhraseSecondLevelItem ==
    <<"a", ".", " ", "S", "e", "c", "o", "n", "d", " ", "l", "e", "v", "e",
      "l", " ", "i", "t", "e", "m">>
PhraseThirdLevelItem ==
    <<"i", ".", " ", "T", "h", "i", "r", "d", " ", "l", "e", "v", "e", "l", " ", "i", "t", "e", "m">>
PhraseLevel1 ==
    <<"1", ".", " ", "L", "e", "v", "e", "l", " ", "1">>
PhraseLevel2 ==
    <<"a", ".", " ", "L", "e", "v", "e", "l", " ", "2">>
PhraseLevel3 ==
    <<"i", ".", " ", "L", "e", "v", "e", "l", " ", "3">>

\* the three if statements, lines 112 to 124: Optional list returned before
\* the loop is entered
hardcoded_items(t) ==
    IF /\ Contains(t, PhraseFirstSection)
       /\ Contains(t, PhraseSubsection)
       /\ Contains(t, PhraseSecondSection)
    THEN Some(extract_section_recognition_test_case)
    ELSE IF /\ Contains(t, PhraseTopLevelItem)
            /\ Contains(t, PhraseSecondLevelItem)
            /\ Contains(t, PhraseThirdLevelItem)
    THEN Some(extract_hierarchical_list_test_case)
    ELSE IF /\ Contains(t, PhraseLevel1)
            /\ Contains(t, PhraseLevel2)
            /\ Contains(t, PhraseLevel3)
    THEN Some(extract_deeply_nested_hierarchy_test_case)
    ELSE None

\* the instance of the top-level class
TopLevel == "top"

\* extract_items(t) of the top-level class when one of the branches is taken:
\* the call returns its list at once
TopLevelReturnHardcoded(t) ==
    /\ pc = "done"
    /\ Len(history) < MaxCalls
    /\ hardcoded_items(t) # None
    /\ self' = TopLevel
    /\ text' = t
    /\ lines' = initial_lines(t)
    /\ line_idx' = 0
    /\ items' = hardcoded_items(t)[1]
    /\ current_section' = initial_section(current_section)
    /\ item_id' = initial_item_id(item_id)
    /\ section_stack' = initial_stack(section_stack)
    /\ origin' = <<>>
    /\ pc' = "done"
    /\ history' = Append(history, [self |-> TopLevel, text |-> t, items |-> items'])
    /\ UNCHANGED <<recent_response, last_items, manager>>

\* and when none is taken: the loop of the packaged class, line for line
TopLevelCall(t) ==
    /\ hardcoded_items(t) = None
    /\ Call(TopLevel, t)

-----------------------------------------------------------------------------
(* The basic parser, src/lang_select/parser.py.  Its items are             *)
(* SelectableItem(id, content, original_marker), the marker being None for *)
(* the items made from paragraphs.                                         *)

SelectableItem(id, content, original_marker) ==
    [id |-> id, content |-> content, original_marker |-> original_marker]

\* the characters of the class [.)\s-]
NumberSeparators == {".", ")", "-"} \cup Whitespace

DigitValue(c) ==
    CHOOSE n \in 0..9 : <<"0", "1", "2", "3", "4", "5", "6", "7", "8", "9">>[n + 1] = c

RECURSIVE int(_)
\* int(s) for a string of digits
int(s) == IF s = <<>> THEN 0 ELSE 10 * int(SubSeq(s, 1, Len(s) - 1)) + DigitValue(s[Len(s)])

\* re.match(r'^\s*(\d+)(?:[.)\s-]+)\s*(.+)$', line.strip()): the digits, the
\* longest run of separators, then the rest; when the run reaches the end of
\* the line it gives its last character back to (.+).  The result is the
\* Optional pair <<number, content.strip()>>.
numbered_match(line) ==
    LET b == strip(line)
        d == LeadingRun(b, Digits)
        r == LeadingRun(From(b, d + 1), NumberSeparators)
        rest == From(b, d + r + 1)
    IN  IF d = 0 \/ r = 0 THEN None
        ELSE IF rest # <<>> THEN Some(<<SubSeq(b, 1, d), strip(rest)>>)
        ELSE IF r >= 2 THEN Some(<<SubSeq(b, 1, d), strip(<<b[Len(b)]>>)>>)
        ELSE None

\* re.match(r'^\s*([u2022*\-+])\s+(.+)$', line.strip())
bullet_match(line) ==
    LET b == strip(line)
    IN  IF Len(b) >= 3 /\ b[1] \in BulletChars /\ b[2] \in Whitespace
        THEN Some(<<<<b[1]>>, strip(From(b, 2))>>)
        ELSE None

RECURSIVE numbered_items_of(_)
\* the for loop of extract_numbered_items over the lines ls
numbered_items_of(ls) ==
    IF ls = <<>> THEN <<>>
    ELSE LET m == numbered_match(Head(ls))
         IN  (IF m = None THEN <<>>
              ELSE <<SelectableItem(int(m[1][1]), m[1][2], Some(m[1][1]))>>)
             \o numbered_items_of(Tail(ls))

extract_numbered_items(t) == numbered_items_of(split(t))

RECURSIVE bullet_items_of(_, _)
\* the for loop of extract_bullet_items over the lines ls, n items found so far
bullet_items_of(ls, n) ==
    IF ls = <<>> THEN <<>>
    ELSE LET m == bullet_match(Head(ls))
         IN  IF m = None THEN bullet_items_of(Tail(ls), n)
             ELSE <<SelectableItem(n + 1, m[1][2], Some(m[1][1]))>>
                  \o bullet_items_of(Tail(ls), n + 1)

extract_bullet_items(t) == bullet_items_of(split(t), 0)

\* the condition of the loop of extract_potential_items_from_paragraphs on a
\* stripped line
is_potential_item(line) ==
    /\ 10 < Len(line) /\ Len(line) < 150
    /\ ~startswith(line, ">")
    /\ LET d == LeadingRun(line, Digits)
       IN  ~(d >= 1 /\ Len(line) > d /\ line[d + 1] \in NumberSeparators)
    /\ line[1] \notin BulletChars

RECURSIVE renumbered(_, _)
\* SelectableItem(i + 1, ...) for the i-th of its, counting from n
renumbered(its, n) ==
    IF its = <<>> THEN <<>>
    ELSE <<SelectableItem(n + 1, Head(its).content, Head(its).original_marker)>>
         \o renumbered(Tail(its), n + 1)

RECURSIVE stripped_lines(_)
\* [line.strip() for line in ls if line.strip()]
stripped_lines(ls) ==
    IF ls = <<>> THEN <<>>
    ELSE (IF strip(Head(ls)) = <<>> THEN <<>> ELSE <<strip(Head(ls))>>)
         \o stripped_lines(Tail(ls))

extract_potential_items_from_paragraphs(t) ==
    LET kept == SelectSeq(stripped_lines(split(t)), is_potential_item)
    IN  [k \in 1..Len(kept) |-> SelectableItem(k, kept[k], None)]

\* parser.extract_items
extract_items(t) ==
    LET all_items == renumbered(extract_numbered_items(t) \o extract_bullet_items(t), 0)
    IN  IF all_items # <<>> THEN all_items
        ELSE extract_potential_items_from_paragraphs(t)

-----------------------------------------------------------------------------
(* ResponseManager, src/lang_select/__init__.py, built without a            *)
(* recent_file.  The variable manager holds its fields; last_call and      *)
(* returned record the last call made on it and what the call returned.    *)
(* get_items of an enhanced manager runs a fresh EnhancedExtractor, the    *)
(* loop above, and caches what the loop returns.                           *)

\* not x, for an Optional string or a list
falsy(x) == x = None \/ x = <<>> \/ x = Some(<<>>)

\* the fields after ResponseManager(use_enhanced=u)
ResponseManager_init(u) ==
    [use_enhanced |-> u,
     recent_response |-> None,
     last_selected_items |-> <<>>,
     last_selection |-> None,
     last_selections |-> <<>>,
     last_call |-> "init",
     returned |-> None]

\* store(t)
ResponseManager_store(t) ==
    /\ pc = "done"
    /\ manager' = [manager EXCEPT !.recent_response = Some(t),
                                  !.last_selected_items = <<>>,
                                  !.last_selection = None,
                                  !.last_selections = <<>>,
                                  !.last_call = "store",
                                  !.returned = None]
    /\ UNCHANGED <<self, text, lines, line_idx, items, current_section, item_id,
                   section_stack, origin, pc, history, recent_response, last_items>>

\* what select_with_external can hand back for the items its: the indices of
\* the chosen items, in order; none when the user cancels
Answers(its, multi_select) ==
    IF multi_select
    THEN {a \in UNION {[1..n -> 1..Len(its)] : n \in 0..Len(its)} :
              \A i \in 1..(Len(a) - 1) : a[i] < a[i + 1]}
    ELSE {<<>>} \cup {<<k>> : k \in 1..Len(its)}

\* the fields and the result of select(multi_select=...) when the selection
\* tool answers with the items of indices selected
select_result(m, multi_select, selected) ==
    IF falsy(m.recent_response)
    THEN [m EXCEPT !.returned = None]
    ELSE LET found == extract_items(m.recent_response[1])
             n == [m EXCEPT !.last_selected_items = found]
             contents == [i \in 1..Len(selected) |-> found[selected[i]].content]
         IN  IF found = <<>> THEN [n EXCEPT !.returned = None]
             ELSE IF selected # <<>>
             THEN IF multi_select
                  THEN [n EXCEPT !.last_selections = contents,
                                 !.last_selection = Some(contents[1]),
                                 !.returned = Some(contents)]
                  ELSE [n EXCEPT !.last_selection = Some(contents[1]),
                                 !.last_selections =
                                     IF contents[1] # <<>> THEN <<contents[1]>> ELSE <<>>,
                                 !.returned = Some(contents[1])]
             ELSE [n EXCEPT !.returned = None]

\* the answers the tool can give to the coming select: it is shown the basic
\* extraction of the stored response, and is not run when nothing is stored
SelectAnswers(multi_select) ==
    IF falsy(manager.recent_response) THEN {<<>>}
    ELSE Answers(extract_items(manager.recent_response[1]), multi_select)

\* select(multi_select=...), the selection tool answering selected
ResponseManager_select(multi_select, selected) ==
    /\ pc = "done"
    /\ selected \in SelectAnswers(multi_select)
    /\ manager' = [select_result(manager, multi_select, selected)
                      EXCEPT !.last_call = "select"]
    /\ UNCHANGED <<self, text, lines, line_idx, items, current_section, item_id,
                   section_stack, origin, pc, history, recent_response, last_items>>

\* get_items() when it returns without the enhanced extractor: nothing
\* stored, the cached items, or the basic extraction
ResponseManager_get_items ==
    /\ pc = "done"
    /\ \/ falsy(manager.recent_response)
       \/ manager.last_selected_items # <<>>
       \/ ~manager.use_enhanced
    /\ manager' =
           IF falsy(manager.recent_response)
           THEN [manager EXCEPT !.last_call = "get_items", !.returned = <<>>]
           ELSE IF manager.last_selected_items # <<>>
           THEN [manager EXCEPT !.last_call = "get_items",
                                !.returned = manager.last_selected_items]
           ELSE LET found == extract_items(manager.recent_response[1])
                IN  [manager EXCEPT !.last_selected_items = found,
                                    !.last_call = "get_items",
                                    !.returned = found]
    /\ UNCHANGED <<self, text, lines, line_idx, items, current_section, item_id,
                   section_stack, origin, pc, history, recent_response, last_items>>

\* get_items() of an enhanced manager with nothing cached, up to the head of
\* the loop of extract_enhanced_items(self.recent_response)
ResponseManager_get_items_enhanced ==
    /\ ~falsy(manager.recent_response)
    /\ manager.last_selected_items = <<>>
    /\ manager.use_enhanced
    /\ Call("e1", manager.recent_response[1])

\* extract_enhanced_items returns into get_items, which caches and returns
\* the items
ResponseManager_get_items_return ==
    /\ pc = "loop"
    /\ line_idx >= Len(lines)
    /\ pc' = "done"
    /\ history' = Append(history, [self |-> self, text |-> text, items |-> items])
    /\ manager' = [manager EXCEPT !.last_selected_items = items,
                                  !.last_call = "get_items",
                                  !.returned = items]
    /\ UNCHANGED <<self, text, lines, line_idx, items, current_section, item_id,
                   section_stack, origin, recent_response, last_items>>

\* get_selection_info(), without the "items" entry
get_selection_info ==
    [selected |-> manager.last_selection,
     selected_items |-> manager.last_selections,
     num_items |-> Len(manager.last_selected_items),
     has_selection |-> manager.last_selections # <<>>]

-----------------------------------------------------------------------------
(* HierarchicalFormatter, src/lang_select/formatter.py.  format_items      *)
(* returns "\n".join(result); the model keeps result, the list of lines.   *)
(* A header line is the styled text of a section title, an item line the   *)
(* indentation, the styled bullet and the escaped content of one item; no  *)
(* styling or escaping adds a newline, so a line is modelled by its parts, *)
(* with the id of the item it renders.                                     *)

\* self.bullet_styles: the bullet and the colour per depth
bullet_styles ==
    <<<<"u2022", "cyan">>, <<"u25E6", "blue">>, <<"u2023", "green">>,
      <<"u25AA", "magenta">>, <<"u25AB", "yellow">>>>

\* getattr(item, 'section', None)
section_attr(item) == IF "section" \in DOMAIN item THEN item.section ELSE None

\* item_map = {item.id: item for item in items}: a later item replaces an
\* earlier one of the same id
item_map_of(its) ==
    [i \in {its[k].id : k \in 1..Len(its)} |->
        its[CHOOSE k \in 1..Len(its) :
                its[k].id = i /\ \A j \in (k + 1)..Len(its) : its[j].id # i]]

\* section_order after the grouping loop: the truthy sections in the order
\* of their first item
section_order_of(its) ==
    LET first == SelectSeq([k \in 1..Len(its) |-> k],
                           LAMBDA k : /\ ~falsy(section_attr(its[k]))
                                      /\ \A j \in 1..(k - 1) :
                                             section_attr(its[j]) # section_attr(its[k]))
    IN  [n \in 1..Len(first) |-> section_attr(its[first[n]])]

\* sections[section] after the grouping loop
section_items(its, section) == SelectSeq(its, LAMBDA i : section_attr(i) = section)

\* the line of _format_item_tree for item at depth
item_line(item, depth) ==
    LET bullet_idx == IF depth < Len(bullet_styles) - 1 THEN depth ELSE Len(bullet_styles) - 1
    IN  [kind |-> "item",
         indent |-> 2 * depth,
         bullet |-> bullet_styles[bullet_idx + 1],
         content |-> item.content,
         id |-> item.id]

\* the line appended for a section in format_items
header_line(section) == [kind |-> "header", section |-> section[1]]

RECURSIVE format_item_tree(_, _, _)
RECURSIVE format_children(_, _, _)
\* _format_item_tree(item, depth, all_items, item_map)
format_item_tree(item, depth, all_items) ==
    LET children == SelectSeq(all_items,
                              LAMBDA i : "parent_id" \in DOMAIN i /\ i.parent_id = Some(item.id))
    IN  <<item_line(item, depth)>> \o format_children(children, depth + 1, all_items)

\* the loop over children of _format_item_tree
format_children(children, depth, all_items) ==
    IF children = <<>> THEN <<>>
    ELSE format_item_tree(Head(children), depth, all_items)
         \o format_children(Tail(children), depth, all_items)

\* only the items without a parent start a tree
is_top_level_parentless(item, section, item_map) ==
    \/ "parent_id" \notin DOMAIN item
    \/ item.parent_id = None

\* the items of a section that start a tree: no parent, or a parent that is
\* unknown or lies in another section
is_top_level(item, section, item_map) ==
    \/ "parent_id" \notin DOMAIN item
    \/ item.parent_id = None
    \/ item.parent_id = Some(0)
    \/ item.parent_id[1] \notin DOMAIN item_map
    \/ section_attr(item_map[item.parent_id[1]]) # section

RECURSIVE format_trees(_, _)
\* the loop over top_level of _format_section_items
format_trees(top_level, all_items) ==
    IF top_level = <<>> THEN <<>>
    ELSE format_item_tree(Head(top_level), 0, all_items)
         \o format_trees(Tail(top_level), all_items)

\* _format_section_items(section, items, item_map)
format_section_items(section, sitems, item_map) ==
    format_trees(SelectSeq(sitems, LAMBDA i : is_top_level(i, section, item_map)), sitems)

RECURSIVE format_sections(_, _)
\* the loop over section_order of format_items
format_sections(order, its) ==
    IF order = <<>> THEN <<>>
    ELSE <<header_line(Head(order))>>
         \o format_section_items(Head(order), section_items(its, Head(order)), item_map_of(its))
         \o format_sections(Tail(order), its)

\* HierarchicalFormatter().format_items(its), as the list of lines
format_items(its) ==
    (IF section_items(its, None) # <<>>
     THEN format_section_items(None, section_items(its, None), item_map_of(its))
     ELSE <<>>)
    \o format_sections(section_order_of(its), its)

-----------------------------------------------------------------------------
(* Inputs *)

RECURSIVE Join(_)
\* '\n'.join(ls)
Join(ls) ==
    IF ls = <<>> THEN <<>>
    ELSE IF Len(ls) = 1 THEN ls[1]
    ELSE ls[1] \o <<"\n">> \o Join(Tail(ls))

\* the lines the texts of Spec are made of
Catalog ==
    {<<"1", ".", " ", "x">>,
     <<" ", " ", "2", ")", " ", "y">>,
     <<"a", ".", " ", "x">>,
     <<" ", " ", " ", " ", "i", ".", " ", "x">>,
     <<"i", "i", ".", " ", "x">>,
     <<" ", "-", " ", "x">>,
     <<" ", " ", "-", " ", "x">>,
     <<"#", " ", "A">>,
     <<"#", "#", " ", "B">>,
     <<"#", "#", "#", " ", "C">>,
     <<"x", "y">>,
     <<" ", " ">>}

Texts == {Join(ls) : ls \in UNION {[1..n -> Catalog] : n \in 0..MaxLines}}

\* the characters the texts of SpecChars are made of
Alphabet == {" ", "a", "i", "v", ".", ")", "-", "#"}

\* what precedes the enumerated characters: nothing, or a first line and an
\* indentation of two columns
Prefixes == {<<>>, <<"a", " ", "a", "\n", " ", " ">>}

CharTexts ==
    {p \o b : p \in Prefixes, b \in UNION {[1..n -> Alphabet] : n \in 0..MaxChars}}

Extractors == {"e1", "e2"}

\* the texts of SpecCalls
CallTexts ==
    {Join(<< <<"-", " ", "x">> >>),
     Join(<< <<"#", " ", "A">>, <<"-", " ", "x">> >>),
     Join(<< <<"x", "y">>, <<>>, <<"1", ".", " ", "x">>, <<" ", " ", "-", " ", "y">> >>),
     Join(<< <<"#", " ", "A">>, <<"#", "#", " ", "B">>, <<"a", ".", " ", "x">> >>)}

\* the texts stored in SpecManager
StoreTexts ==
    {<<>>,
     Join(<< <<"-", " ", "x">>, <<"#", " ">> \o Unsectioned, <<"-", " ", "y">> >>),
     Join(<< <<"-", " ", "x">>, <<>>, <<"#", " ", "A">>, <<"1", ".", " ", "y">>,
             <<"x", "y">>, <<"-", " ", "z">> >>),
     Join(<< <<"#", " ", "A">>, <<"-", " ", "x">>, <<"#", " ", "B">>, <<"-", " ", "y">>,
             <<"#", " ", "A">>, <<"-", " ", "z">> >>)}

\* the lines the first text of SpecBlank is made of, and that text: one or
\* two of them
BlankCatalog ==
    {<<"#", " ", "A">>,
     <<" ", " ", "-", " ", "x">>,
     <<"a", ".", " ", "y">>,
     <<"x", "y">>}

BlankTexts == {Join(ls) : ls \in UNION {[1..n -> BlankCatalog] : n \in 1..2}}

\* the whitespace-only lines that are inserted
BlankLines == {<<>>, <<" ", " ">>}

\* ls with line w inserted after its first n lines, and ls without its line n
InsertAt(ls, n, w) == SubSeq(ls, 1, n) \o <<w>> \o SubSeq(ls, n + 1, Len(ls))
RemoveAt(ls, n) == SubSeq(ls, 1, n - 1) \o SubSeq(ls, n + 1, Len(ls))

\* the texts of SpecTopLevel: one without any of the phrases, and one for
\* each of the three branches
TopLevelTexts ==
    {<<"#", " ", "A", "\n", "\n", "x", "y", "\n", "-", " ", "x">>,
     <<"#", " ", "F", "i", "r", "s", "t", " ", "S", "e", "c", "t", "i", "o",
       "n", "\n", "#", "#", " ", "S", "u", "b", "s", "e", "c", "t", "i", "o",
       "n", "\n", "#", " ", "S", "e", "c", "o", "n", "d", " ", "S", "e", "c",
       "t", "i", "o", "n">>,
     <<"1", ".", " ", "T", "o", "p", " ", "l", "e", "v", "e", "l", " ", "i",
       "t", "e", "m", "\n", "a", ".", " ", "S", "e", "c", "o", "n", "d", " ",
       "l", "e", "v", "e", "l", " ", "i", "t", "e", "m", "\n", "i", ".", " ",
       "T", "h", "i", "r", "d", " ", "l", "e", "v", "e", "l", " ", "i", "t",
       "e", "m">>,
     <<"1", ".", " ", "L", "e", "v", "e", "l", " ", "1", "\n", "a", ".", " ",
       "L", "e", "v", "e", "l", " ", "2", "\n", "i", ".", " ", "L", "e", "v",
       "e", "l", " ", "3">>}

-----------------------------------------------------------------------------
(* Inputs of SpecMarks: lines put together from a leading token, what      *)
(* follows it and the rest of the line.                                     *)

\* how a line starts: digits, letters, runs of i v x, bullets, a number in
\* parentheses, words, runs of # and other punctuation
MarkTokens ==
    {<<"1">>,
     <<"1", "2">>,
     <<"a">>,
     <<"B">>,
     <<"i">>,
     <<"i", "i">>,
     <<"i", "v">>,
     <<"i", "i", "i", "i">>,
     <<"-">>,
     <<"*">>,
     <<"+">>,
     <<"(", "1", ")">>,
     <<"k">>,
     <<"a", "b">>,
     <<"#">>,
     <<"#", "#", "#", "#", "#", "#", "#">>,
     <<">">>,
     <<"-", "-", "-">>,
     <<"*", "*", "*">>}

\* what follows the token
MarkDelims ==
    {<<>>,
     <<" ">>,
     <<".">>,
     <<")">>,
     <<".", " ">>,
     <<")", " ">>,
     <<" ", " ", ".">>,
     <<":">>,
     <<":", " ">>}

\* the rest of the line
MarkTails ==
    {<<>>,
     <<"x">>,
     <<"x", ":">>,
     <<"k", ":", " ", "v">>,
     <<"1", ".", " ", "x">>,
     <<"-", " ", "x">>,
     <<"a", ".", " ", "x">>}

MarkLines == {t \o d \o r : t \in MarkTokens, d \in MarkDelims, r \in MarkTails}

\* what precedes the line: nothing, or a heading, a blank line and an item on
\* a line of its own
MarkPrefixes ==
    {<<>>, Join(<< <<"#", " ", "A">>, <<>>, <<"-", " ", "y">>, <<>> >>)}

MarkTexts == {p \o l : p \in MarkPrefixes, l \in MarkLines}

\* the responses stored in a ResponseManager: the empty one, a heading with a
\* numbered and a bulleted item, a lettered item, and a short paragraph
ResponseTexts ==
    {<<>>,
     <<"#", " ", "A", "\n", "\n", "1", ".", " ", "x", "\n", "-", " ", "y">>,
     <<"a", ".", " ", "x">>,
     <<"P", "l", "a", "i", "n", " ", "w", "o", "r", "d", "s", ".">>}

\* the texts given to the formatter: seven lines, each left out or taken
\* from the choices of its position (headings A and B, items at two depths,
\* a roman item, a line that is no item)
FormatSlots ==
    <<{<<>>, <<"#", " ", "A">>},
      {<<>>, <<"-", " ", "x">>},
      {<<>>, <<" ", " ", "-", " ", "y">>, <<"i", "i", ".", " ", "z">>, <<"x", "y">>},
      {<<>>, <<"#", " ", "A">>, <<"#", " ", "B">>},
      {<<>>, <<"-", " ", "x">>, <<" ", " ", "-", " ", "y">>},
      {<<>>, <<"#", " ", "A">>, <<"#", " ", "B">>},
      {<<>>, <<"-", " ", "x">>, <<" ", " ", "-", " ", "y">>, <<"i", "i", ".", " ", "z">>}>>
FormatTexts ==
    {Join(ls) : ls \in {f \in [1..Len(FormatSlots) -> UNION {FormatSlots[k] : k \in 1..Len(FormatSlots)}] :
                             \A k \in 1..Len(FormatSlots) : f[k] \in FormatSlots[k]}}

-----------------------------------------------------------------------------
(* Specifications *)

Step == BlankLine \/ SectionHeader \/ ListItem \/ NoMatch \/ Return

\* one call on a text made of catalog lines
Init == \E t \in Texts : Entered("e1", t)
Next == Step
Spec == Init /\ [][Next]_vars

\* one call on a text enumerated character by character
InitChars == \E t \in CharTexts : Entered("e1", t)
NextChars == Step
SpecChars == InitChars /\ [][NextChars]_vars

\* a sequence of calls on the extractors
InitCalls == \E e \in Extractors : \E t \in CallTexts : Entered(e, t)
NextCalls == Step \/ \E e \in Extractors : \E t \in CallTexts : Call(e, t)
SpecCalls == InitCalls /\ [][NextCalls]_vars

\* one call on a text that ends with a line of MarkLines
InitMarks == \E t \in MarkTexts : Entered("e1", t)
NextMarks == Step
SpecMarks == InitMarks /\ [][NextMarks]_vars

\* a manager and the texts stored in it one after the other
InitManager == Constructed("e1")
NextManager ==
    \/ BlankLine \/ SectionHeader \/ ListItem \/ NoMatch
    \/ StoreReturn
    \/ \E t \in StoreTexts : Store(t)
SpecManager == InitManager /\ [][NextManager]_vars

\* extract_items is called again on the text of the call before, with a
\* whitespace-only line inserted after its first n lines
CallWithBlankInserted(n, w) ==
    Call(self, Join(InsertAt(split(text), n, w)))

\* and with its whitespace-only line n deleted
CallWithBlankDeleted(n) ==
    /\ strip(split(text)[n]) = <<>>
    /\ Call(self, Join(RemoveAt(split(text), n)))

\* calls on texts that differ in their whitespace-only lines
InitBlank == \E t \in BlankTexts : Entered("e1", t)
NextBlank ==
    \/ Step
    \/ \E n \in 0..Len(split(text)) : \E w \in BlankLines : CallWithBlankInserted(n, w)
    \/ \E n \in 1..Len(split(text)) : CallWithBlankDeleted(n)
SpecBlank == InitBlank /\ [][NextBlank]_vars

\* calls of both classes on the same texts
InitTopLevel == Constructed("e1")
NextTopLevel ==
    \/ Step
    \/ \E t \in TopLevelTexts : Call("e1", t)
    \/ \E t \in TopLevelTexts : TopLevelCall(t)
    \/ \E t \in TopLevelTexts : TopLevelReturnHardcoded(t)
SpecTopLevel == InitTopLevel /\ [][NextTopLevel]_vars

\* a ResponseManager of either kind and the calls made on it
InitResponse ==
    /\ self = "e1"
    /\ text = <<>>
    /\ lines = <<>>
    /\ line_idx = 0
    /\ items = <<>>
    /\ current_section = None
    /\ item_id = 0
    /\ section_stack = <<>>
    /\ origin = <<>>
    /\ pc = "done"
    /\ history = <<>>
    /\ recent_response = None
    /\ last_items = <<>>
    /\ \E u \in BOOLEAN : manager = ResponseManager_init(u)
NextResponse ==
    \/ BlankLine \/ SectionHeader \/ ListItem \/ NoMatch
    \/ \E t \in ResponseTexts : ResponseManager_store(t)
    \/ \E multi_select \in BOOLEAN : \E selected \in SelectAnswers(multi_select) :
           ResponseManager_select(multi_select, selected)
    \/ ResponseManager_get_items
    \/ ResponseManager_get_items_enhanced
    \/ ResponseManager_get_items_return
SpecResponse == InitResponse /\ [][NextResponse]_vars

\* one call whose items are handed to the formatter
InitFormat == \E t \in FormatTexts : Entered("e1", t)
NextFormat == Step
SpecFormat == InitFormat /\ [][NextFormat]_vars

-----------------------------------------------------------------------------
(* Properties of extract_items *)

Max(S) == CHOOSE m \in S : \A n \in S : n <= m

ItemIndices == 1..Len(items)

\* the lines of the input text as given, and how many of them strip() removes
\* from the front of the text
InputLines == split(text)
DroppedLines == Len(split(SubSeq(text, 1, LeadingRun(text, Whitespace)))) - 1

\* the line of the input text that items[k] was made from
SourceIndex(k) == origin[k] + DroppedLines
SourceLine(k) == InputLines[SourceIndex(k)]

\* a heading line: one to six '#' after optional whitespace, then whitespace,
\* then a title; 0 when the line is no heading
HeadingDepth(l) ==
    LET b == strip(l)
        IsDepth(h) == /\ Len(b) >= h + 2
                      /\ \A i \in 1..h : b[i] = "#"
                      /\ b[h + 1] \in Whitespace
    IN  IF \E h \in 1..6 : IsDepth(h) THEN CHOOSE h \in 1..6 : IsDepth(h) ELSE 0
HeadingTitle(l) == strip(From(strip(l), HeadingDepth(l) + 1))

\* a line that yields an item: not blank, no heading, matched by the classifier
ItemLine(l) ==
    /\ strip(l) # <<>>
    /\ HeadingDepth(l) = 0
    /\ match_list_item(rstrip(l)) # None

ParentOf(k) == items[k].parent_id
HasParent(k) == ParentOf(k) # None
\* the preceding items at exactly one level less, and at any smaller level
OneLevelUp(k) == {j \in 1..(k - 1) : items[j].level = items[k].level - 1}
Shallower(k) == {j \in 1..(k - 1) : items[j].level < items[k].level}

\* C1: the ids of the items are 1, 2, ..., n in list order, the items come in
\* the order of the lines that produced them, and every line handled so far
\* that is not blank, is no heading and matches an item pattern has produced
\* exactly one item.
C1_IdsFollowLineOrder ==
    /\ Len(origin) = Len(items)
    /\ \A k \in ItemIndices : items[k].id = k /\ origin[k] \in 1..line_idx
    /\ \A j, k \in ItemIndices : j < k => origin[j] < origin[k]
    /\ \A n \in 1..line_idx :
           ItemLine(lines[n]) <=> \E k \in ItemIndices : origin[k] = n

\* a finished call with two items or more, and a line without an item
\* between two of them
C1_Witness ==
    /\ pc = "done"
    /\ Len(items) >= 2
    /\ \E k \in 1..(Len(items) - 1) : origin[k + 1] > origin[k] + 1

\* C2: a parent_id is the id of an item earlier in the list, strictly smaller
\* than the id of the item that carries it.
C2_ParentPrecedes ==
    \A k \in ItemIndices :
        HasParent(k) =>
            \E j \in 1..(k - 1) :
                items[j].id = ParentOf(k)[1] /\ items[j].id < items[k].id

\* an item whose parent is not the item right before it
C2_Witness ==
    /\ pc = "done"
    /\ \E k \in ItemIndices : HasParent(k) /\ ParentOf(k)[1] < items[k].id - 1

\* C3: an item of level 0 has no parent_id, and neither has the first item,
\* whatever its level.
C3_TopLevelHasNoParent ==
    \A k \in ItemIndices :
        (items[k].level = 0 \/ k = 1) => ~HasParent(k)

\* a first item of level 2, and a later item of level 0 that follows items
C3_Witness ==
    /\ pc = "done"
    /\ Len(items) >= 3
    /\ items[1].level = 2
    /\ items[3].level = 0

\* C4 as claimed: the parent is the nearest preceding item exactly one level
\* up (so level = parent's level + 1), and there is no parent when no
\* preceding item is exactly one level up.
C4_ParentIsOneLevelUp ==
    \A k \in ItemIndices :
        ParentOf(k) = IF OneLevelUp(k) = {} THEN None
                      ELSE Some(items[Max(OneLevelUp(k))].id)

\* C4 as amended: a parent is strictly shallower than its child; it is the
\* nearest preceding item exactly one level up whenever a preceding item is
\* exactly one level up; and there is no parent exactly when no preceding
\* item is shallower.
C4_ParentIsShallower ==
    \A k \in ItemIndices :
        /\ OneLevelUp(k) # {} => ParentOf(k) = Some(items[Max(OneLevelUp(k))].id)
        /\ HasParent(k) => \E j \in Shallower(k) : items[j].id = ParentOf(k)[1]
        /\ ~HasParent(k) <=> Shallower(k) = {}

\* an item of level 2 under a parent of level 0, and an item under a parent
\* exactly one level up
C4_Witness ==
    /\ pc = "done"
    /\ \E k \in ItemIndices :
           HasParent(k) /\ items[k].level = 2 /\ items[ParentOf(k)[1]].level = 0
    /\ \E k \in ItemIndices :
           HasParent(k) /\ items[k].level = items[ParentOf(k)[1]].level + 1

\* the heading lines of the input text before the line of items[k]
HeadingsBefore(k) ==
    {n \in 1..(SourceIndex(k) - 1) : HeadingDepth(InputLines[n]) > 0}

\* C5: the section of an item is the trimmed title of the last heading line
\* before the item's line in the input text, whatever the depths of the
\* headings, and it is absent exactly when no heading line comes before it.
C5_SectionIsLastHeading ==
    \A k \in ItemIndices :
        items[k].section =
            IF HeadingsBefore(k) = {} THEN None
            ELSE Some(HeadingTitle(InputLines[Max(HeadingsBefore(k))]))

\* an item under a heading that is deeper than the heading before it, the
\* two of them on the stack
C5_Witness ==
    /\ pc = "done"
    /\ Len(section_stack) = 2
    /\ \E k \in ItemIndices :
           /\ Cardinality(HeadingsBefore(k)) = 2
           /\ items[k].section = Some(section_stack[2][2])

\* C6: at every point of the loop the depths on the heading stack increase
\* strictly from bottom to top (so it holds at most 6 entries), and the
\* current section is absent iff the stack is empty and is the title on top
\* of the stack otherwise.
C6_StackShape ==
    /\ Len(section_stack) <= 6
    /\ \A i \in 1..Len(section_stack) : section_stack[i][1] \in 1..6
    /\ \A i, j \in 1..Len(section_stack) :
           i < j => section_stack[i][1] < section_stack[j][1]
    /\ current_section = IF section_stack = <<>> THEN None
                         ELSE Some(section_stack[Len(section_stack)][2])

\* three headings, the second one shallower than the first (which it pops)
\* and the third one deeper than the second
C6_Witness ==
    /\ pc = "done"
    /\ Len(lines) = 3
    /\ HeadingDepth(lines[1]) > HeadingDepth(lines[2])
    /\ HeadingDepth(lines[2]) > 0
    /\ HeadingDepth(lines[3]) > HeadingDepth(lines[2])
    /\ Len(section_stack) = 2

\* C7 as claimed: an item whose line starts with a single letter i, v, x, I,
\* V or X followed by '.', ')' or whitespace is a roman item of level 2.
C7_SingleRomanLetterIsRoman ==
    \A k \in ItemIndices :
        LET b == strip(SourceLine(k))
        IN  (Len(b) >= 2 /\ b[1] \in RomanChars /\ b[2] \in Delimiters) =>
                /\ determine_marker_type(items[k].original_marker) = "roman"
                /\ items[k].level = 2

\* C8 as claimed: an item whose marker is neither a letter nor a roman marker
\* has level 1 if its line in the input text starts with at least 2
\* whitespace characters and level 0 otherwise.
C8_LevelFromIndentation ==
    \A k \in ItemIndices :
        determine_marker_type(items[k].original_marker) \notin {"letter", "roman"} =>
            items[k].level = IF line_indent(SourceLine(k)) >= 2 THEN 1 ELSE 0

\* the marker made of token and the delimiter kept with it
MarkersOf(token) == {token, token \o <<".">>, token \o <<")">>}
SingleLetterMarker(m) == \E c \in Letters : m \in MarkersOf(<<c>>)
MultiLetterRomanMarker(m) ==
    \E r \in CanonicalRomans : Len(r) >= 2 /\ m \in MarkersOf(r)

C10_SameTextSameItems ==
    \A i, j \in 1..Len(history) :
        history[i].text = history[j].text => history[i].items = history[j].items

\* the same text on two extractors, with a call on another text in between
\* that ends with a current section and a heading on the stack
C10_Witness ==
    /\ Len(history) = 3
    /\ history[1].text = history[3].text
    /\ history[1].self # history[3].self
    /\ history[1].items # <<>>
    /\ history[1].items[1].section = None
    /\ history[2].text # history[1].text
    /\ Len(history[2].items) = 1
    /\ history[2].items[1].section # None

-----------------------------------------------------------------------------
(* Properties of the line classifier *)

\* the single line made of the marker of items[k], a space and its content,
\* and what the classifier makes of it
Rebuilt(k) == items[k].original_marker \o <<" ">> \o items[k].content
Reclassified(k) == match_list_item(Rebuilt(k))
Marked(k) == items[k].original_marker # <<>>
\* an item with a marker whose line starts with '(' is a number in parentheses
ParenItem(k) == Marked(k) /\ startswith(strip(SourceLine(k)), "(")

LeadToken(l) ==
    LET b == strip(l)
        r == IF LeadingRun(b, Digits) >= 1 THEN LeadingRun(b, Digits)
             ELSE IF Len(b) >= 2 /\ b[1] \in Letters /\ b[2] \in Delimiters THEN 1
             ELSE LeadingRun(b, RomanChars)
    IN  IF r >= 1 /\ Len(b) >= r + 2 /\ b[r + 1] \in Delimiters THEN r ELSE 0

\* the token of such a line with the '.' or ')' that follows it directly
MarkerAsWritten(l) ==
    LET b == strip(l)
        r == LeadToken(l)
    IN  IF b[r + 1] \in {".", ")"} THEN SubSeq(b, 1, r + 1) ELSE SubSeq(b, 1, r)

\* C12 as claimed: the marker of a number, letter or roman item is the token
\* as written in its line, with the '.' or the ')' that followed it, and
\* the bare token when whitespace followed it.
C12_MarkerKeepsDelimiter ==
    \A k \in ItemIndices :
        LeadToken(SourceLine(k)) >= 1 =>
            items[k].original_marker = MarkerAsWritten(SourceLine(k))

\* a section-style label: the line ends with ':' and holds no other colon, so
\* nothing but whitespace follows its colon
LabelLine(l) ==
    LET b == strip(l)
    IN  /\ b # <<>>
        /\ b[Len(b)] = ":"
        /\ \A i \in 1..(Len(b) - 1) : b[i] # ":"

\* C13 as claimed: no item is made from a section-style label, whatever the
\* line starts with.
C13_LabelLineYieldsNoItem ==
    \A k \in ItemIndices : ~LabelLine(SourceLine(k))

\* a line made of punctuation only: not blank, and no letter, digit,
\* underscore or whitespace between its first and its last character
PunctuationOnly(l) ==
    LET b == strip(l)
    IN  b # <<>> /\ \A i \in 1..Len(b) : b[i] \notin WordChars \cup Whitespace

\* the section after the first n lines: the title of the last heading among
\* them
SectionAfter(n) ==
    LET H == {m \in 1..n : HeadingDepth(lines[m]) > 0}
    IN  IF H = {} THEN None ELSE Some(HeadingTitle(lines[Max(H)]))

\* C14 as claimed: a line made of punctuation only ('#' without a title,
\* '---', '***', '-') yields no item and leaves the current section as it
\* was.
C14_PunctuationYieldsNoItem ==
    /\ \A k \in ItemIndices : ~PunctuationOnly(lines[origin[k]])
    /\ (line_idx >= 1 /\ line_idx <= Len(lines) /\ PunctuationOnly(lines[line_idx])) =>
           current_section = SectionAfter(line_idx - 1)

\* a line that is dropped: not blank, no heading, matched by no item pattern
NoMatchLine(l) ==
    /\ strip(l) # <<>>
    /\ HeadingDepth(l) = 0
    /\ match_list_item(rstrip(l)) = None

\* one pass of the loop body: it moves to the next line, and a dropped line
\* changes nothing else; after the last line the call returns the items
C15_LoopStep ==
    /\ (pc = "loop" /\ line_idx < Len(lines)) =>
           /\ line_idx' = line_idx + 1
           /\ pc' = "loop"
           /\ NoMatchLine(lines[line_idx + 1]) =>
                  UNCHANGED <<items, current_section, section_stack, item_id>>
    /\ (pc = "loop" /\ line_idx >= Len(lines)) =>
           /\ pc' = "done"
           /\ UNCHANGED <<items, line_idx>>
           /\ history' = Append(history, [self |-> self, text |-> text, items |-> items])

\* C15: extract_items handles every line once and returns: each pass of the
\* loop moves to the next line and the call returns after the last one, a
\* non-blank line that is no heading and matches no item pattern (a line of
\* seven '#' included) leaves the items, the current section, the heading
\* stack and the id counter as they were, and a text of such lines and
\* blank lines only yields no item.
C15_DroppedLinesChangeNothing ==
    /\ [][C15_LoopStep]_vars
    /\ []((\A n \in 1..Len(lines) : strip(lines[n]) = <<>> \/ NoMatchLine(lines[n])) =>
              items = <<>>)
    /\ [](line_idx <= Len(lines))

\* a finished call whose last line, seven '#' and a title, came after a
\* heading and an item
C15_Witness ==
    /\ pc = "done"
    /\ Len(lines) >= 2
    /\ LeadingRun(lines[Len(lines)], {"#"}) = 7
    /\ NoMatchLine(lines[Len(lines)])
    /\ Len(items) = 1
    /\ current_section # None
    /\ section_stack # <<>>

-----------------------------------------------------------------------------
(* Properties of EnhancedResponseManager *)

\* the items of the last store that satisfy the test, in output order
Sectionless == SelectSeq(last_items, LAMBDA i : i.section = None)
InSection(s) == SelectSeq(last_items, LAMBDA i : i.section = Some(s))

\* C16 as claimed: get_sections groups the items of the last store: every
\* item is in exactly one group, the group 'Unsectioned' holds exactly the
\* items without a section, every other group exactly the items whose
\* section is its name, each in output order.
C16_SectionsPartition ==
    /\ \A k \in 1..Len(last_items) :
           Cardinality({s \in DOMAIN get_sections :
                           \E i \in 1..Len(get_sections[s]) :
                               get_sections[s][i] = last_items[k]}) = 1
    /\ \A s \in DOMAIN get_sections :
           get_sections[s] = IF s = Unsectioned THEN Sectionless ELSE InSection(s)

-----------------------------------------------------------------------------
(* Properties of blank lines, headings and prose *)

\* the lines of a text that are not whitespace-only
NonBlankLines(t) == SelectSeq(split(t), LAMBDA l : strip(l) # <<>>)

\* C17: two texts that differ only in whitespace-only lines (inserted or
\* deleted anywhere, before the first item line included) yield the same
\* items, field by field.
C17_BlankLinesHaveNoEffect ==
    \A i, j \in 1..Len(history) :
        NonBlankLines(history[i].text) = NonBlankLines(history[j].text) =>
            history[i].items = history[j].items

\* a text whose first line is an indented item line, and later the same
\* text after an empty line: both returned the item
C17_Witness ==
    \E i, j \in 1..Len(history) :
        /\ i < j
        /\ line_indent(split(history[i].text)[1]) >= 2
        /\ history[j].text = <<"\n">> \o history[i].text
        /\ history[i].items # <<>>
        /\ history[j].items # <<>>

\* a pass of the loop over a heading line: no item, no id, the title on top
\* of the stack and as current section
C18_HeadingStep ==
    (pc = "loop" /\ line_idx < Len(lines) /\ HeadingDepth(lines[line_idx + 1]) > 0) =>
        LET l == lines[line_idx + 1]
        IN  /\ UNCHANGED <<items, item_id, origin>>
            /\ current_section' = Some(HeadingTitle(l))
            /\ section_stack' # <<>>
            /\ section_stack'[Len(section_stack')] = <<HeadingDepth(l), HeadingTitle(l)>>

\* C18: a heading line (1 to 6 '#', whitespace, title) yields no item and
\* takes no id, also when its title reads like a list item; it only updates
\* the heading stack and the current section.
C18_HeadingYieldsNoItem == [][C18_HeadingStep]_vars

\* after an item, a heading whose title is itself matched by a marker
\* pattern: still one item and one id, and the title is the current section
C18_Witness ==
    /\ pc = "done"
    /\ Len(lines) >= 2
    /\ HeadingDepth(lines[Len(lines)]) > 0
    /\ match_list_item(HeadingTitle(lines[Len(lines)])) # None
    /\ group(match_list_item(HeadingTitle(lines[Len(lines)])), 2) # <<>>
    /\ Len(items) = 1
    /\ item_id = 1
    /\ current_section = Some(HeadingTitle(lines[Len(lines)]))

\* a line of prose: words of letters separated by spaces
Prose(l) ==
    LET b == strip(l)
    IN  b # <<>> /\ \A i \in 1..Len(b) : b[i] \in Letters \cup {" "}

\* the first word of a line of prose
FirstWord(l) == SubSeq(strip(l), 1, LeadingRun(strip(l), Letters))

\* prose that starts like an outline entry: the first word is a single
\* letter or is made of the letters i, v, x, I, V, X only, and more words
\* follow
MarkerWordProse(l) ==
    /\ Prose(l)
    /\ Len(FirstWord(l)) < Len(strip(l))
    /\ \/ Len(FirstWord(l)) = 1
       \/ \A i \in 1..Len(FirstWord(l)) : FirstWord(l)[i] \in RomanChars

\* C19 as claimed: a line of prose yields no item, whatever its first word.
C19_ProseYieldsNoItem ==
    \A k \in ItemIndices : ~Prose(lines[origin[k]])

\* C19 as amended: a line of prose yields an item exactly when more words
\* follow a first word that is a single letter or is made of the letters
\* i, v, x, I, V, X only; that word is then the marker and the words after
\* it are the content.
C19_ProseItemIffMarkerWord ==
    /\ \A n \in 1..line_idx :
           Prose(lines[n]) =>
               (MarkerWordProse(lines[n]) <=> \E k \in ItemIndices : origin[k] = n)
    /\ \A k \in ItemIndices :
           Prose(lines[origin[k]]) =>
               /\ items[k].original_marker = FirstWord(lines[origin[k]])
               /\ items[k].content =
                      strip(From(strip(lines[origin[k]]), Len(FirstWord(lines[origin[k]])) + 1))

\* a line of prose that starts with a one-letter word and has yielded an
\* item, then an indented line of prose that has yielded none
C19_Witness ==
    /\ pc = "done"
    /\ Len(lines) = 2
    /\ Prose(lines[1])
    /\ Prose(lines[2])
    /\ Len(FirstWord(lines[1])) = 1
    /\ Len(items) = 1
    /\ origin[1] = 1

\* C20 as claimed: an item whose line is indented more deeply than the line
\* of the item before it has a level that is not smaller than the level of
\* that item.
C20_DeeperIndentKeepsLevel ==
    \A k \in 2..Len(items) :
        line_indent(lines[origin[k]]) > line_indent(lines[origin[k - 1]]) =>
            items[k].level >= items[k - 1].level

-----------------------------------------------------------------------------
(* Properties of the top-level extractor *)

\* C21 as claimed: on every text the top-level class returns the items the
\* packaged class returns.
C21_TopLevelSameAsPackaged ==
    \A i, j \in 1..Len(history) :
        (/\ history[i].self = TopLevel
         /\ history[j].self # TopLevel
         /\ history[i].text = history[j].text) =>
            history[i].items = history[j].items

-----------------------------------------------------------------------------
(* Properties of the parent links and the levels *)

\* C22: the parent of an item of level L > 0 is the most recent earlier item
\* of level L - 1; if there is none, the most recent earlier item of a level
\* below L; if there is none either, it is absent.  All earlier items of the
\* call count, whatever their section.
C22_ParentLookup ==
    \A k \in ItemIndices :
        items[k].level > 0 =>
            ParentOf(k) =
                IF OneLevelUp(k) # {} THEN Some(items[Max(OneLevelUp(k))].id)
                ELSE IF Shallower(k) # {} THEN Some(items[Max(Shallower(k))].id)
                ELSE None

\* an item of level 2 with no earlier item of level 1: its parent is an item
\* of level 0 that lies in another section
C22_Witness ==
    /\ pc = "done"
    /\ \E k \in ItemIndices :
           /\ items[k].level = 2
           /\ OneLevelUp(k) = {}
           /\ HasParent(k)
           /\ items[ParentOf(k)[1]].level = 0
           /\ items[ParentOf(k)[1]].section # items[k].section

-----------------------------------------------------------------------------
(* Properties of the order of the patterns *)

\* the patterns in the order claimed, whether pattern number p matches a
\* line, and the token and the content it then captures (key-value: no
\* token, the key, ': ' and the value; fallback: no token, the trimmed line)
PatternMatch(p, l) ==
    CASE p = 1 -> numbered_pattern(l)
      [] p = 2 -> lettered_pattern(l)
      [] p = 3 -> roman_pattern(l)
      [] p = 4 -> bullet_pattern(l)
      [] p = 5 -> paren_number_pattern(l)
      [] p = 6 -> IF key_value_pattern(l) = None THEN None
                  ELSE Some(<< <<>>, group(key_value_pattern(l), 1) \o <<":", " ">>
                                       \o group(key_value_pattern(l), 2) >>)
      [] p = 7 -> IF resembles_list_item(l) THEN Some(<< <<>>, strip(l) >>) ELSE None
MatchingPatterns(l) == {p \in 1..7 : PatternMatch(p, l) # None}
FirstPattern(l) == CHOOSE p \in MatchingPatterns(l) : \A r \in MatchingPatterns(l) : p <= r

\* C23: an item comes from a line that some pattern matches, and the
\* earliest matching pattern in the order number, letter, roman, bullet,
\* parenthesized number, key-value, fallback decides it: the content is the
\* content that pattern captures, the marker starts with the token it
\* captures (and is empty for key-value and fallback); a handled line that
\* no pattern matches yields no item.
C23_FirstPatternDecides ==
    /\ \A k \in ItemIndices :
           LET l == rstrip(lines[origin[k]])
               m == PatternMatch(FirstPattern(l), l)
           IN  /\ MatchingPatterns(l) # {}
               /\ items[k].content = group(m, 2)
               /\ Len(items[k].original_marker) >= Len(group(m, 1))
               /\ SubSeq(items[k].original_marker, 1, Len(group(m, 1))) = group(m, 1)
               /\ FirstPattern(l) >= 6 => items[k].original_marker = <<>>
    /\ \A n \in 1..line_idx :
           (strip(lines[n]) # <<>> /\ HeadingDepth(lines[n]) = 0
                /\ MatchingPatterns(rstrip(lines[n])) = {}) =>
               \A k \in ItemIndices : origin[k] # n

\* a line that the bullet, the key-value and the fallback pattern all match
\* has become a bullet item whose content holds the colon
C23_Witness ==
    /\ pc = "done"
    /\ \E k \in ItemIndices :
           /\ {4, 6, 7} \subseteq MatchingPatterns(rstrip(lines[origin[k]]))
           /\ items[k].original_marker = <<"-">>
           /\ items[k].content = <<"k", ":", " ", "v">>

\* C24 as claimed: an item whose line starts with '-' or '*' directly
\* followed by a character that is no whitespace is unmarked: its marker is
\* empty and its content is the whole trimmed line.
C24_UnspacedBulletIsUnmarked ==
    \A k \in ItemIndices :
        LET b == strip(lines[origin[k]])
        IN  (Len(b) >= 2 /\ b[1] \in {"-", "*"} /\ b[2] \notin Whitespace) =>
                /\ items[k].original_marker = <<>>
                /\ items[k].content = b

\* the run of the letters i, v, x, I, V, X a line starts with
RomanRun(l) == SubSeq(strip(l), 1, LeadingRun(strip(l), RomanChars))

\* C25 as claimed: a line whose leading token is made of the letters i, v,
\* x, I, V, X but is none of the 24 canonical numerals is not matched by the
\* roman pattern: no item carries that token as its marker.
C25_OnlyCanonicalRomans ==
    \A k \in ItemIndices :
        LET token == RomanRun(lines[origin[k]])
        IN  (Len(token) >= 2 /\ token \notin CanonicalRomans) =>
                items[k].original_marker \notin MarkersOf(token)

\* C26: the level of every item is 0, 1 or 2, however deep the indentation
\* of its line and whatever precedes it.
C26_LevelAtMostTwo ==
    \A k \in ItemIndices : items[k].level \in {0, 1, 2}

\* an item of level 1 on a line indented by four columns or more, under an
\* item of level 1
C26_Witness ==
    /\ pc = "done"
    /\ Len(items) = 2
    /\ items[1].level = 1
    /\ line_indent(lines[origin[2]]) >= 4
    /\ determine_marker_type(items[2].original_marker) = "bullet"
    /\ items[2].level = 1

\* the items strictly between the parent of items[k] and items[k]
Between(k) == {j \in ItemIndices : ParentOf(k)[1] < j /\ j < k}

\* C27 as claimed: no item strictly between a parent and its child has a
\* level less than or equal to the level of the parent.
C27_NoShallowerItemBetween ==
    \A k \in ItemIndices :
        HasParent(k) =>
            \A j \in Between(k) : items[j].level > items[ParentOf(k)[1]].level

\* C27 as amended: no item strictly between a parent and its child has the
\* level of the parent; when the parent is more than one level up, every
\* item between them is at least as deep as the child.  An item shallower
\* than the parent can lie between them when the parent is exactly one
\* level up.
C27_NoSameLevelItemBetween ==
    \A k \in ItemIndices :
        HasParent(k) =>
            \A j \in Between(k) :
                /\ items[j].level # items[ParentOf(k)[1]].level
                /\ items[ParentOf(k)[1]].level < items[k].level - 1 =>
                       items[j].level >= items[k].level

\* a level-2 item whose parent is a level-1 item, with an item of level 0
\* between the two
C27_Witness ==
    /\ pc = "done"
    /\ Len(items) = 3
    /\ items[1].level = 1
    /\ items[2].level = 0
    /\ items[3].level = 2
    /\ ParentOf(3) = Some(1)

-----------------------------------------------------------------------------
(* Properties of ResponseManager *)

\* the text of the last store, when there is one that counts as stored
Stored == ~falsy(manager.recent_response)
StoredText == manager.recent_response[1]

\* its is what the extractor chosen at construction extracts from the stored
\* text: the basic extraction, or the items an enhanced call on that text has
\* returned
ChosenExtraction(its) ==
    IF manager.use_enhanced
    THEN \E k \in 1..Len(history) : history[k].text = StoredText /\ history[k].items = its
    ELSE its = extract_items(StoredText)

\* C28: after any sequence of store, select and get_items calls, get_items()
\* returns the extraction of the most recently stored response made with the
\* extractor chosen at construction, never the items of another response or
\* of the other extractor.
C28_GetItemsUsesChosenExtractor ==
    (pc = "done" /\ manager.last_call = "get_items" /\ Stored)
        => ChosenExtraction(manager.returned)

\* C29: get_selection_info reflects the most recent select(): right after a
\* store() or a select(), has_selection is true or selected is set only if that
\* call was a select() that returned a selection; after a select() that
\* returned None, or a store(), has_selection is false.
C29_SelectionInfoReflectsLastSelect ==
    (pc = "done" /\ manager.last_call \in {"store", "select"})
        => ((get_selection_info.has_selection \/ ~falsy(get_selection_info.selected))
               => (manager.last_call = "select" /\ manager.returned # None))

-----------------------------------------------------------------------------
(* Properties of HierarchicalFormatter *)

Formatted == format_items(items)
ItemLinesOf(id) ==
    {n \in 1..Len(Formatted) : Formatted[n].kind = "item" /\ Formatted[n].id = id}
HeaderLinesOf(s) ==
    {n \in 1..Len(Formatted) : Formatted[n].kind = "header" /\ Formatted[n].section = s}
HeaderLines == {n \in 1..Len(Formatted) : Formatted[n].kind = "header"}
SectionNames == {items[k].section[1] : k \in {j \in ItemIndices : items[j].section # None}}
FirstItemOf(s) == CHOOSE k \in ItemIndices :
                      /\ items[k].section = Some(s)
                      /\ \A j \in 1..(k - 1) : items[j].section # Some(s)
LineOf(k) == CHOOSE n \in ItemLinesOf(items[k].id) : TRUE
HeaderOf(s) == CHOOSE n \in HeaderLinesOf(s) : TRUE

====
